---- MODULE Spec2Model ----
(***************************************************************************)
(* Model of SparseMatrix<int> (src/ex00/sparse_matrix.cc): the CSR         *)
(* construction protocol (empty-pattern constructor, set, close), the      *)
(* constructor from a CSR triple, element access, and the kernels          *)
(* multiply, Jacobi_step, SOR_step and SSOR_step, which run row by row.    *)
(* Indices are 0-based as in the source: row_ptr is a function on          *)
(* 0..nrow, col_ind and val are sequences read at position d+1.            *)
(***************************************************************************)
EXTENDS Integers, Sequences, FiniteSets, TLC

VARIABLES count, mats, setlog, call, ret, halted

vars == <<count, mats, setlog, call, ret, halted>>

(* ------------------------------ bounds --------------------------------- *)
\* largest nrow of a matrix built through the empty-pattern constructor
MaxRow == 2
\* largest nrow of the matrix whose cells are read back in SpecGet
GetRows == 3
\* cap on the function-static counter of set (total number of set calls)
MaxCount == 2
\* largest nrow of a CSR triple handed to the triple constructor
KRow == 2
\* largest number of stored entries of such a triple
KEntries == 2

(* --------------------------- value domains ----------------------------- *)
\* values stored into a matrix
Vals == {1, 2}
\* components of the vector x handed to a kernel
XVals == {0, 1}
\* relaxation factors and scalars handed to a kernel
Omegas == {1, 2}
\* values of the static counter of set when the matrix of SpecSingle is
\* built: 0 in a fresh process, 1 after a call of set on an earlier matrix
PriorCounts == {0, 1}
BuildIds == {"A", "B"}
MatIds == {"A", "B", "T"}
NoMat == [nrow |-> 0, row_ptr |-> <<>>, col_ind |-> <<>>, val |-> <<>>, state |-> "NONE"]
\* what an out-of-bounds or uninitialised read may deliver
GarbageVals == {0, 1}

(* ------------------------- helpers on sequences ------------------------ *)
RECURSIVE SumTo(_, _)
SumTo(f, n) == IF n = 0 THEN 0 ELSE f[n] + SumTo(f, n - 1)

\* C++ integer division truncates toward zero
CDiv(a, b) ==
  IF (a >= 0 /\ b > 0) \/ (a <= 0 /\ b < 0)
  THEN (IF a >= 0 THEN a ELSE -a) \div (IF b >= 0 THEN b ELSE -b)
  ELSE -((IF a >= 0 THEN a ELSE -a) \div (IF b >= 0 THEN b ELSE -b))

\* std::sqrt of an int converted back to T = int: the integer part of the root
RECURSIVE ISqrtFrom(_, _)
ISqrtFrom(n, k) == IF (k + 1) * (k + 1) > n THEN k ELSE ISqrtFrom(n, k + 1)
ISqrt(n) == ISqrtFrom(n, 0)

(* ----------------------------- constructors ---------------------------- *)
\* SparseMatrix(nrow): row_ptr.resize(nrow+1, 0); state = OPEN
CtorEmpty(n) ==
  [nrow |-> n, row_ptr |-> [k \in 0..n |-> 0], col_ind |-> <<>>, val |-> <<>>,
   state |-> "OPEN"]

\* the assertions of SparseMatrix(row_ptr, col_ind, val); rp is a function on 0..n
CtorTripleOK(rp, ci, vl) ==
  LET n == Cardinality(DOMAIN rp) - 1 IN
  /\ Cardinality(DOMAIN rp) >= 2
  /\ Len(ci) > 0
  /\ Len(ci) = Len(vl)
  /\ rp[n] = Len(vl)
  /\ \A d \in 1..Len(ci) : ci[d] >= 0 /\ ci[d] < n

\* SparseMatrix(row_ptr, col_ind, val) copies the triple; the member state
\* is not in the initialiser list and is not assigned in the body
CtorTriple(rp, ci, vl) ==
  [nrow |-> Cardinality(DOMAIN rp) - 1, row_ptr |-> rp, col_ind |-> ci, val |-> vl,
   state |-> "UNINIT"]

(* --------------------------------- set --------------------------------- *)
\* set without the assertion on state
StateIsOpen_Unchecked(mat) == {TRUE}

\* possible outcomes of evaluating state == OPEN; an uninitialised member
\* may compare either way
StateIsOpen(mat) ==
  IF mat.state = "OPEN" THEN {TRUE}
  ELSE IF mat.state = "CLOSED" THEN {FALSE}
  ELSE BOOLEAN

\* assert (i >= 0 && i < nrow); assert (j >= 0 && j < nrow)
SetIndexOK(mat, i, j) == i >= 0 /\ i < mat.nrow /\ j >= 0 /\ j < mat.nrow

\* body of set after the assertions, with cnt the value of the static counter
SetOp(mat, cnt, i, j, v) ==
  LET rp1 == IF mat.row_ptr[i + 1] = 0
             THEN [mat.row_ptr EXCEPT ![i + 1] = cnt]
             ELSE mat.row_ptr
  IN [mat EXCEPT !.row_ptr = [rp1 EXCEPT ![i + 1] = @ + 1],
                 !.col_ind = Append(@, j),
                 !.val = Append(@, v)]

(* -------------------------------- close -------------------------------- *)
\* for(i=1; i<nrow+1; ++i) if(row_ptr[i] == 0) row_ptr[i] = row_ptr[i-1];
RECURSIVE CloseLoop(_, _, _)
CloseLoop(rp, i, n) ==
  IF i >= n + 1 THEN rp
  ELSE CloseLoop(IF rp[i] = 0 THEN [rp EXCEPT ![i] = rp[i - 1]] ELSE rp, i + 1, n)

\* close without the loop over the empty rows
CloseOp_NoFill(mat) == [mat EXCEPT !.state = "CLOSED"]

CloseOp(mat) ==
  [mat EXCEPT !.row_ptr = CloseLoop(mat.row_ptr, 1, mat.nrow), !.state = "CLOSED"]

(* ---------------------------- element access --------------------------- *)
\* for(d=row_beg; d<row_end; ++d) if(col_ind[d] == j) return val[d];
\* result: the index found, -1 when the loop ends without a match,
\* -2 when the loop reads col_ind past its end
RECURSIVE Scan(_, _, _, _)
Scan(mat, d, row_end, j) ==
  IF d >= row_end THEN -1
  ELSE IF d >= Len(mat.col_ind) THEN -2
  ELSE IF mat.col_ind[d + 1] = j THEN d
  ELSE Scan(mat, d + 1, row_end, j)

Find(mat, i, j) == Scan(mat, mat.row_ptr[i], mat.row_ptr[i + 1], j)

\* T operator()(i, j) const: the values the call may return
GetOp(mat, i, j) ==
  LET d == Find(mat, i, j) IN
  IF d >= 0 THEN {mat.val[d + 1]}
  ELSE IF d = -1 THEN {0}
  ELSE GarbageVals

\* T& operator()(i, j): the index of the stored entry the reference denotes
GetMutOp(mat, i, j) == Find(mat, i, j)

(* ------------------------------- kernels ------------------------------- *)
\* for(j=row_beg; j<row_end; ++j) acc += val[j] * x(col_ind[j]), over the
\* indices inside val
RECURSIVE RowDot(_, _, _, _)
RowDot(mat, x, j, row_end) ==
  IF j >= row_end \/ j >= Len(mat.val) THEN 0
  ELSE mat.val[j + 1] * x[mat.col_ind[j + 1] + 1] + RowDot(mat, x, j + 1, row_end)

\* the row loop reads val and col_ind past their end
RowOOB(mat, i) ==
  mat.row_ptr[i] < mat.row_ptr[i + 1] /\ mat.row_ptr[i + 1] > Len(mat.val)

\* what the reads past the end may contribute to the sum of a row
RowGarbage(mat, i) == IF RowOOB(mat, i) THEN GarbageVals ELSE {0}

\* diag(i): return val[ row_ptr[i] ]; the values the call may return
DiagOp(mat, i) ==
  IF mat.row_ptr[i] < Len(mat.val) THEN {mat.val[mat.row_ptr[i] + 1]} ELSE GarbageVals

\* a / d in int arithmetic; division by zero is undefined
Quot(a, d) == IF d # 0 THEN {CDiv(a, d)} ELSE GarbageVals

\* Vector<T>: construct(n) gives n zeros, += adds element-wise, dot sums products
VecZero(n) == [k \in 1..n |-> 0]
VecAdd(a, b) == [k \in 1..Len(a) |-> a[k] + b[k]]
Dot(a, b) == SumTo([k \in 1..Len(a) |-> a[k] * b[k]], Len(a))

\* multiply without y(i) = 0: the row sum is added to what y held
MultiplyRowOp_Accumulate(c, mat, g) ==
  LET sum == c.y[c.i + 1] + RowDot(mat, c.x, mat.row_ptr[c.i], mat.row_ptr[c.i + 1]) + g
  IN [c EXCEPT !.y = [c.y EXCEPT ![c.i + 1] = sum * c.w], !.i = c.i + 1]

\* multiply, one pass of the loop over i:
\* y(i) = 0; y(i) += val[j] * x(col_ind[j]) ...; y(i) *= scalar
MultiplyRowOp(c, mat, g) ==
  LET sum == 0 + RowDot(mat, c.x, mat.row_ptr[c.i], mat.row_ptr[c.i + 1]) + g
  IN [c EXCEPT !.y = [c.y EXCEPT ![c.i + 1] = sum * c.w], !.i = c.i + 1]

\* Jacobi update with = in place of +=
JacobiRowOp_Assign(c, d, q) ==
  [c EXCEPT !.x = [c.x EXCEPT ![c.i + 1] = q], !.i = c.i + 1,
            !.drow = c.i, !.dval = d]

\* Jacobi_step, one pass of the loop: x(i) += r(i) / diag(i), r being c.y
JacobiRowOp(c, d, q) ==
  [c EXCEPT !.x = [c.x EXCEPT ![c.i + 1] = @ + q], !.i = c.i + 1,
            !.drow = c.i, !.dval = d]

\* residual taken on the x the call was entered with
Residual_Stale(c, mat, g) ==
  c.rhs[c.i + 1] - RowDot(mat, c.x0, mat.row_ptr[c.i], mat.row_ptr[c.i + 1]) - g

\* T r = rhs(i); r -= val[j] * x(col_ind[j]) ...
Residual(c, mat, g) ==
  c.rhs[c.i + 1] - RowDot(mat, c.x, mat.row_ptr[c.i], mat.row_ptr[c.i + 1]) - g

\* SOR_step, one pass of the loop: x(i) += omg * r / diag(i); res += r * r
SORRowOp(c, r, d, q) ==
  [c EXCEPT !.x = [c.x EXCEPT ![c.i + 1] = @ + q], !.res = c.res + r * r,
            !.i = c.i + 1, !.drow = c.i, !.dval = d]

\* SSOR_step, one pass of the forward loop: x(i) += omg * r / diag(i)
SSORForwardOp(c, r, d, q) ==
  [c EXCEPT !.x = [c.x EXCEPT ![c.i + 1] = @ + q], !.i = c.i + 1,
            !.drow = c.i, !.dval = d]

\* SSOR_step, one pass of the backward loop, i running down
SSORBackwardOp(c, r, d, q) ==
  [c EXCEPT !.x = [c.x EXCEPT ![c.i + 1] = @ + q], !.res = c.res + r * r,
            !.i = c.i - 1, !.drow = c.i, !.dval = d]

\* backward loop that stops before row 0
SSORBackwardCond_SkipRow0(i) == i > 0

\* for(int i=nrow-1; i>=0; --i): the backward loop goes on while this holds
SSORBackwardCond(i) == i >= 0

\* return std::sqrt(res), converted to T
KernelRet(c) == IF c.op = "multiply" THEN 0 ELSE ISqrt(c.res)

(* ------------------------------- inputs -------------------------------- *)
\* row offsets of a valid CSR structure with n rows and k stored entries
RowPtrs(n, k) ==
  {rp \in [0..n -> 0..k] :
     rp[0] = 0 /\ rp[n] = k /\ \A i \in 0..(n - 1) : rp[i] <= rp[i + 1]}

Triples ==
  UNION {UNION {{[rp |-> rp, ci |-> ci, vl |-> vl] :
                   rp \in RowPtrs(n, k), ci \in [1..k -> 0..(n - 1)], vl \in [1..k -> Vals]} :
                k \in 1..KEntries} :
         n \in 1..KRow}

\* the 3x3 identity pattern and the vectors of the worked examples
Identity3 == [rp |-> [k \in 0..3 |-> k], ci |-> <<0, 1, 2>>, vl |-> <<1, 1, 1>>]
ExampleVecs == {<<2, 3, 4>>, <<0, 0, 0>>}

IsIdentity3(mat) ==
  mat.nrow = 3 /\ mat.row_ptr = Identity3.rp /\ mat.col_ind = Identity3.ci
               /\ mat.val = Identity3.vl

\* vectors handed to a kernel of matrix m: a single vector for the matrices
\* under construction, the bounded family for the matrix built from a triple
InVecs(m) ==
  IF m = "T"
  THEN [1..mats[m].nrow -> XVals] \cup (IF IsIdentity3(mats[m]) THEN ExampleVecs ELSE {})
  ELSE {[k \in 1..mats[m].nrow |-> 1]}

\* right-hand sides and prior contents of y: all ones, or 1, 2, .., nrow
InRhs(m) ==
  IF m = "T"
  THEN {[k \in 1..mats[m].nrow |-> 1], [k \in 1..mats[m].nrow |-> k]}
         \cup (IF IsIdentity3(mats[m]) THEN ExampleVecs ELSE {})
  ELSE {[k \in 1..mats[m].nrow |-> 1]}

InScalars(m) == IF m = "T" THEN Omegas ELSE {1}

(* ------------------------------- state --------------------------------- *)
Idle ==
  [op |-> "none", m |-> "A", phase |-> "idle", i |-> 0, x |-> <<>>, y |-> <<>>,
   rhs |-> <<>>, w |-> 0, res |-> 0, x0 |-> <<>>, y0 |-> <<>>, drow |-> -1, dval |-> 0]

\* the last call made, the value it returned and whether it returned at all
Void == [op |-> "none", m |-> "A", v |-> 0, ok |-> TRUE]

Running == halted = "no" /\ call = Idle

\* a process that builds matrices A and B through the empty-pattern constructor
Init ==
  /\ count = 0
  /\ mats = [m \in MatIds |-> NoMat]
  /\ setlog = [m \in MatIds |-> <<>>]
  /\ call = Idle
  /\ ret = Void
  /\ halted = "no"

\* a process that builds one matrix, possibly after a call of set on a
\* matrix built earlier
InitSingle ==
  /\ count \in PriorCounts
  /\ mats = [m \in MatIds |-> NoMat]
  /\ setlog = [m \in MatIds |-> <<>>]
  /\ call = Idle
  /\ ret = Void
  /\ halted = "no"

\* a process whose matrix T comes from the constructor taking a CSR triple
InitTriple ==
  /\ count = 0
  /\ \E t \in Triples \cup {Identity3} :
       /\ CtorTripleOK(t.rp, t.ci, t.vl)
       /\ mats = [m \in MatIds |-> IF m = "T" THEN CtorTriple(t.rp, t.ci, t.vl) ELSE NoMat]
  /\ setlog = [m \in MatIds |-> <<>>]
  /\ call = Idle
  /\ ret = Void
  /\ halted = "no"

(* ------------------------------ actions -------------------------------- *)
ConstructUpTo(m, rows) ==
  /\ Running
  /\ mats[m] = NoMat
  /\ \E n \in 1..rows : mats' = [mats EXCEPT ![m] = CtorEmpty(n)]
  /\ ret' = Void
  /\ UNCHANGED <<count, setlog, call, halted>>

Construct(m) == ConstructUpTo(m, MaxRow)

ConstructGet(m) == ConstructUpTo(m, GetRows)

\* set(i, j, v): either every assertion passes and the entry is appended, or
\* an assertion fails (state, or an index not below nrow) and the process ends
Set(m) ==
  /\ Running
  /\ mats[m] # NoMat
  /\ \/ /\ count < MaxCount
        /\ TRUE \in StateIsOpen(mats[m])
        /\ \E i \in 0..mats[m].nrow, j \in 0..mats[m].nrow, v \in Vals :
             /\ SetIndexOK(mats[m], i, j)
             /\ mats' = [mats EXCEPT ![m] = SetOp(mats[m], count, i, j, v)]
             /\ count' = count + 1
             /\ setlog' = [setlog EXCEPT ![m] = Append(@, [i |-> i, j |-> j, v |-> v])]
        /\ ret' = [Void EXCEPT !.op = "set", !.m = m]
        /\ UNCHANGED <<call, halted>>
     \/ /\ \/ FALSE \in StateIsOpen(mats[m])
           \/ /\ count < MaxCount
              /\ \E i \in 0..mats[m].nrow, j \in 0..mats[m].nrow : ~SetIndexOK(mats[m], i, j)
        /\ halted' = "assert"
        /\ ret' = [Void EXCEPT !.op = "set", !.m = m, !.ok = FALSE]
        /\ UNCHANGED <<count, mats, setlog, call>>

Close(m) ==
  /\ Running
  /\ mats[m] # NoMat
  /\ mats' = [mats EXCEPT ![m] = CloseOp(mats[m])]
  /\ ret' = [Void EXCEPT !.op = "close", !.m = m]
  /\ UNCHANGED <<count, setlog, call, halted>>

Get(m) ==
  /\ Running
  /\ mats[m] # NoMat
  /\ \E i \in 0..(mats[m].nrow - 1), j \in 0..(mats[m].nrow - 1) :
     \E v \in GetOp(mats[m], i, j) :
       ret' = [op |-> "get", m |-> m, v |-> v, ok |-> TRUE]
  /\ UNCHANGED <<count, mats, setlog, call, halted>>

\* the caller stores v through the reference; a missing entry ends the
\* process (abort), a scan running past col_ind is undefined
GetMut(m) ==
  /\ Running
  /\ mats[m] # NoMat
  /\ \E i \in 0..(mats[m].nrow - 1), j \in 0..(mats[m].nrow - 1), v \in Vals :
       LET d == GetMutOp(mats[m], i, j) IN
       IF d >= 0
       THEN /\ mats' = [mats EXCEPT ![m].val[d + 1] = v]
            /\ ret' = [Void EXCEPT !.op = "get_mut", !.m = m]
            /\ UNCHANGED halted
       ELSE /\ halted' \in (IF d = -1 THEN {"abort"} ELSE {"abort", "segv"})
            /\ ret' = [Void EXCEPT !.op = "get_mut", !.m = m, !.ok = FALSE]
            /\ UNCHANGED mats
  /\ UNCHANGED <<count, setlog, call>>

\* kernels are called on a matrix whose pattern is finished
Usable(m) == mats[m] # NoMat /\ mats[m].state # "OPEN"

StartMultiply(m) ==
  /\ Running /\ Usable(m)
  /\ \E x \in InVecs(m), y \in InRhs(m), s \in InScalars(m) :
       call' = [Idle EXCEPT !.op = "multiply", !.m = m, !.phase = "mul", !.x = x, !.y = y,
                            !.w = s, !.x0 = x, !.y0 = y]
  /\ ret' = Void
  /\ UNCHANGED <<count, mats, setlog, halted>>

\* Vector<T> r(nrow); multiply(x, r, -1)
StartJacobi(m) ==
  /\ Running /\ Usable(m)
  /\ \E x \in InVecs(m), rhs \in InRhs(m) :
       call' = [Idle EXCEPT !.op = "Jacobi", !.m = m, !.phase = "mul", !.x = x,
                            !.y = VecZero(mats[m].nrow), !.rhs = rhs, !.w = -1,
                            !.x0 = x, !.y0 = VecZero(mats[m].nrow)]
  /\ ret' = Void
  /\ UNCHANGED <<count, mats, setlog, halted>>

StartSOR(m) ==
  /\ Running /\ Usable(m)
  /\ \E x \in InVecs(m), rhs \in InRhs(m), omg \in InScalars(m) :
       call' = [Idle EXCEPT !.op = "SOR", !.m = m, !.phase = "fwd", !.x = x, !.rhs = rhs,
                            !.w = omg, !.x0 = x]
  /\ ret' = Void
  /\ UNCHANGED <<count, mats, setlog, halted>>

StartSSOR(m) ==
  /\ Running /\ Usable(m)
  /\ \E x \in InVecs(m), rhs \in InRhs(m), omg \in InScalars(m) :
       call' = [Idle EXCEPT !.op = "SSOR", !.m = m, !.phase = "fwd", !.x = x, !.rhs = rhs,
                            !.w = omg, !.x0 = x]
  /\ ret' = Void
  /\ UNCHANGED <<count, mats, setlog, halted>>

\* one row of multiply; after the last row multiply returns, to its caller
\* (phase done) or into Jacobi_step (phase add)
MultiplyRow ==
  /\ halted = "no" /\ call.phase = "mul"
  /\ LET mat == mats[call.m] IN
     \E g \in RowGarbage(mat, call.i) :
       LET c == MultiplyRowOp(call, mat, g) IN
       call' = IF c.i < mat.nrow THEN c
               ELSE [c EXCEPT !.phase = IF c.op = "Jacobi" THEN "add" ELSE "done"]
  /\ UNCHANGED <<count, mats, setlog, ret, halted>>

\* r += rhs
JacobiAdd ==
  /\ halted = "no" /\ call.phase = "add"
  /\ call' = [call EXCEPT !.y = VecAdd(call.y, call.rhs), !.phase = "upd", !.i = 0]
  /\ UNCHANGED <<count, mats, setlog, ret, halted>>

\* one row of the update loop; after the last row dot(r, r) is taken
JacobiRow ==
  /\ halted = "no" /\ call.phase = "upd"
  /\ LET mat == mats[call.m] IN
     \E d \in DiagOp(mat, call.i) :
     \E q \in Quot(call.y[call.i + 1], d) :
       LET c == JacobiRowOp(call, d, q) IN
       call' = IF c.i < mat.nrow THEN c
               ELSE [c EXCEPT !.phase = "done", !.res = Dot(c.y, c.y)]
  /\ UNCHANGED <<count, mats, setlog, ret, halted>>

SORRow ==
  /\ halted = "no" /\ call.op = "SOR" /\ call.phase = "fwd"
  /\ LET mat == mats[call.m] IN
     \E g \in RowGarbage(mat, call.i), d \in DiagOp(mat, call.i) :
       LET r == Residual(call, mat, g) IN
       \E q \in Quot(call.w * r, d) :
         LET c == SORRowOp(call, r, d, q) IN
         call' = IF c.i < mat.nrow THEN c ELSE [c EXCEPT !.phase = "done"]
  /\ UNCHANGED <<count, mats, setlog, ret, halted>>

SSORForwardRow ==
  /\ halted = "no" /\ call.op = "SSOR" /\ call.phase = "fwd"
  /\ LET mat == mats[call.m] IN
     \E g \in RowGarbage(mat, call.i), d \in DiagOp(mat, call.i) :
       LET r == Residual(call, mat, g) IN
       \E q \in Quot(call.w * r, d) :
         LET c == SSORForwardOp(call, r, d, q) IN
         call' = IF c.i < mat.nrow THEN c
                 ELSE [c EXCEPT !.phase = "bwd", !.i = mat.nrow - 1, !.res = 0]
  /\ UNCHANGED <<count, mats, setlog, ret, halted>>

SSORBackwardRow ==
  /\ halted = "no" /\ call.op = "SSOR" /\ call.phase = "bwd"
  /\ LET mat == mats[call.m] IN
     \E g \in RowGarbage(mat, call.i), d \in DiagOp(mat, call.i) :
       LET r == Residual(call, mat, g) IN
       \E q \in Quot(call.w * r, d) :
         LET c == SSORBackwardOp(call, r, d, q) IN
         call' = IF SSORBackwardCond(c.i) THEN c ELSE [c EXCEPT !.phase = "done"]
  /\ UNCHANGED <<count, mats, setlog, ret, halted>>

\* an undefined operation of the row about to be processed ends the process:
\* a read past the end of val or col_ind, or an integer division by zero
KernelTrap ==
  /\ halted = "no" /\ call.phase \in {"mul", "upd", "fwd", "bwd"}
  /\ LET mat == mats[call.m] IN
     \/ /\ call.phase # "upd" /\ RowOOB(mat, call.i)
        /\ halted' = "segv"
     \/ /\ call.phase # "mul" /\ mat.row_ptr[call.i] >= Len(mat.val)
        /\ halted' = "segv"
     \/ /\ call.phase # "mul" /\ 0 \in DiagOp(mat, call.i)
        /\ halted' = "fpe"
  /\ UNCHANGED <<count, mats, setlog, call, ret>>

\* the kernel returns KernelRet(call) and its frame is dropped
KernelReturn ==
  /\ halted = "no" /\ call.phase = "done"
  /\ ret' = [Void EXCEPT !.op = "kernel", !.m = call.m]
  /\ call' = Idle
  /\ UNCHANGED <<count, mats, setlog, halted>>

Kernel(m) ==
  \/ StartMultiply(m)
  \/ StartJacobi(m)
  \/ StartSOR(m)
  \/ StartSSOR(m)

KernelStep ==
  \/ MultiplyRow
  \/ JacobiAdd
  \/ JacobiRow
  \/ SORRow
  \/ SSORForwardRow
  \/ SSORBackwardRow
  \/ KernelTrap
  \/ KernelReturn

(* --------------------------- specifications ---------------------------- *)
\* two matrices under construction in one process
Next ==
  \/ \E m \in BuildIds : Construct(m)
  \/ \E m \in BuildIds : Set(m)
  \/ \E m \in BuildIds : Close(m)

Spec == Init /\ [][Next]_vars

\* one matrix and every operation on it
NextSingle ==
  \/ Construct("A")
  \/ Set("A")
  \/ Close("A")
  \/ Get("A")
  \/ GetMut("A")
  \/ Kernel("A")
  \/ KernelStep

SpecSingle == InitSingle /\ [][NextSingle]_vars

\* one matrix in a fresh process, built and read back cell by cell
NextGet ==
  \/ ConstructGet("A")
  \/ Set("A")
  \/ Close("A")
  \/ Get("A")

SpecGet == Init /\ [][NextGet]_vars

\* construction protocol on a matrix built from a CSR triple
NextTriple ==
  \/ Set("T")
  \/ Close("T")
  \/ GetMut("T")

SpecTriple == InitTriple /\ [][NextTriple]_vars

\* the kernels on a matrix built from a valid CSR triple
NextKernel ==
  \/ Kernel("T")
  \/ KernelStep

SpecKernel == InitTriple /\ [][NextKernel]_vars

(* ------------------------- notions of the claims ----------------------- *)
\* set was called in non-decreasing row order
Ascending(log) == \A a, b \in 1..Len(log) : a < b => log[a].i <= log[b].i

\* no two calls of set name the same cell
DistinctCells(log) ==
  \A a, b \in 1..Len(log) : a # b => (log[a].i # log[b].i \/ log[a].j # log[b].j)

\* number of calls of set into rows 0..i
EntriesUpTo(log, i) == Cardinality({k \in 1..Len(log) : log[k].i <= i})

\* every call of set so far was made on matrix m
Fresh(m) == count = Len(setlog[m])

\* the value get(i, j) has to return after the calls in log
Expected(log, i, j) ==
  IF \E k \in 1..Len(log) : log[k].i = i /\ log[k].j = j
  THEN (CHOOSE e \in {log[k] : k \in 1..Len(log)} : e.i = i /\ e.j = j).v
  ELSE 0

\* the calls in log followed by close(), executed alone in a fresh process
RECURSIVE Replay(_, _, _)
Replay(log, n, k) ==
  IF k = 0 THEN CtorEmpty(n)
  ELSE SetOp(Replay(log, n, k - 1), k - 1, log[k].i, log[k].j, log[k].v)

Alone(log, n) == CloseOp(Replay(log, n, Len(log)))

\* sum over the stored entries d of row i of val[d] * x[col_ind[d]]
RefRowSum(mat, i, x) ==
  SumTo([d \in 1..Len(mat.val) |->
           IF mat.row_ptr[i] < d /\ d <= mat.row_ptr[i + 1]
           THEN mat.val[d] * x[mat.col_ind[d] + 1] ELSE 0],
        Len(mat.val))

\* every row has a first stored entry inside val, and its value is not zero
DiagUsable(mat) ==
  \A i \in 0..(mat.nrow - 1) :
    mat.row_ptr[i] < Len(mat.val) /\ mat.val[mat.row_ptr[i] + 1] # 0

DiagVal(mat, i) == mat.val[mat.row_ptr[i] + 1]

\* x after the rows 0..k-1 of an ascending in-place sweep
RECURSIVE SweepRef(_, _, _, _, _)
SweepRef(mat, x, rhs, omg, k) ==
  IF k = 0 THEN x
  ELSE LET xp == SweepRef(mat, x, rhs, omg, k - 1)
           r == rhs[k] - RefRowSum(mat, k - 1, xp)
       IN [xp EXCEPT ![k] = @ + CDiv(omg * r, DiagVal(mat, k - 1))]

\* residual row i sees in the ascending sweep
SweepRes(mat, x, rhs, omg, i) ==
  rhs[i + 1] - RefRowSum(mat, i, SweepRef(mat, x, rhs, omg, i))

\* x after the rows nrow-1 down to nrow-k of a descending in-place sweep
RECURSIVE BackRef(_, _, _, _, _)
BackRef(mat, x, rhs, omg, k) ==
  IF k = 0 THEN x
  ELSE LET xp == BackRef(mat, x, rhs, omg, k - 1)
           i == mat.nrow - k
           r == rhs[i + 1] - RefRowSum(mat, i, xp)
       IN [xp EXCEPT ![i + 1] = @ + CDiv(omg * r, DiagVal(mat, i))]

\* residual row i sees in the descending sweep
BackRes(mat, x, rhs, omg, i) ==
  rhs[i + 1] - RefRowSum(mat, i, BackRef(mat, x, rhs, omg, mat.nrow - 1 - i))

SumSq(f, n) == SumTo([k \in 1..n |-> f[k] * f[k]], n)

(* -------------------------------- claims ------------------------------- *)
\* C1: a matrix built in a fresh process by the empty-pattern constructor,
\* row-ascending calls of set and close() has a row_ptr of nrow+1 entries
\* that starts at 0, is non-decreasing, holds in row_ptr[i+1] the number of
\* entries inserted into rows 0..i, ends at length(val) = length(col_ind),
\* and every col_ind entry is below nrow.
C1_ClosedCSR ==
  \A m \in BuildIds :
    (mats[m].state = "CLOSED" /\ Fresh(m) /\ Ascending(setlog[m])) =>
      LET mat == mats[m] IN
      /\ DOMAIN mat.row_ptr = 0..mat.nrow
      /\ mat.row_ptr[0] = 0
      /\ \A i \in 0..(mat.nrow - 1) :
           /\ mat.row_ptr[i] <= mat.row_ptr[i + 1]
           /\ mat.row_ptr[i + 1] = EntriesUpTo(setlog[m], i)
      /\ mat.row_ptr[mat.nrow] = Len(mat.val)
      /\ Len(mat.val) = Len(mat.col_ind)
      /\ \A d \in 1..Len(mat.col_ind) : mat.col_ind[d] < mat.nrow

\* a closed matrix with two entries in row 0 and an empty row 1
C1_Witness ==
  /\ mats["A"].state = "CLOSED" /\ Fresh("A") /\ Ascending(setlog["A"])
  /\ mats["A"].nrow = 2 /\ Len(setlog["A"]) = 2
  /\ setlog["A"][1].i = 0 /\ setlog["A"][2].i = 0

\* C2: matrices share no hidden state: after its close() a matrix built by
\* row-ascending calls of set has the row_ptr, col_ind and val that its own
\* calls of set and close() produce alone in a fresh process, and
\* row_ptr[nrow] = length(val).
C2_NoSharedState ==
  \A m \in BuildIds :
    (mats[m].state = "CLOSED" /\ Ascending(setlog[m])) =>
      LET a == Alone(setlog[m], mats[m].nrow) IN
      /\ mats[m].row_ptr = a.row_ptr
      /\ mats[m].col_ind = a.col_ind
      /\ mats[m].val = a.val
      /\ mats[m].row_ptr[mats[m].nrow] = Len(mats[m].val)

\* C3: once closed, a matrix built through the empty-pattern constructor
\* stays closed and keeps nrow, row_ptr, col_ind and its number of entries
\* under every operation; set on it is rejected without appending, a failing
\* get_mut ends the process without inserting, and stored values change
\* only through get_mut.
C3_Frozen ==
  [][mats["A"].state = "CLOSED" =>
       /\ mats'["A"].state = "CLOSED"
       /\ mats'["A"].nrow = mats["A"].nrow
       /\ mats'["A"].row_ptr = mats["A"].row_ptr
       /\ mats'["A"].col_ind = mats["A"].col_ind
       /\ Len(mats'["A"].val) = Len(mats["A"].val)
       /\ (mats'["A"].val # mats["A"].val => (ret'.op = "get_mut" /\ ret'.ok))
       /\ (ret'.op = "set" => (~ret'.ok /\ halted' = "assert" /\ mats' = mats))
       /\ ((ret'.op = "get_mut" /\ ~ret'.ok) => (halted' # "no" /\ mats' = mats))]_vars

\* set was called on a closed matrix that holds entries, and was rejected
C3_Witness ==
  /\ mats["A"].state = "CLOSED" /\ Len(mats["A"].val) > 0
  /\ ret.op = "set" /\ ~ret.ok /\ halted = "assert"

\* C4: on a matrix built from a CSR triple every call of set is rejected as
\* an invalid-state error.
C4_SetRejected ==
  (ret.op = "set" /\ ret.m = "T") => (~ret.ok /\ halted = "assert")

\* C5: in every state reached in a fresh process by the empty-pattern
\* constructor, row-ascending calls of set on distinct cells and optionally
\* close(), get(i,j) returns v if set(i,j,v) was executed and zero otherwise.
C5_GetCorrect ==
  (/\ mats["A"] # NoMat /\ Fresh("A")
   /\ Ascending(setlog["A"]) /\ DistinctCells(setlog["A"])
   /\ mats["A"].val = [k \in 1..Len(setlog["A"]) |-> setlog["A"][k].v])
  => \A i, j \in 0..(mats["A"].nrow - 1) :
       GetOp(mats["A"], i, j) = {Expected(setlog["A"], i, j)}

\* C6: in jacobi_step, sor_step and ssor_step a row that was processed
\* without failing used as divisor the stored value of its cell (i,i); a
\* zero or missing diagonal makes the row divide by zero or fail.
C6_DivisorIsDiagonal ==
  (call.op \in {"Jacobi", "SOR", "SSOR"} /\ call.drow >= 0) =>
    LET mat == mats[call.m] IN
    \/ call.dval = 0
    \/ \E d \in 1..Len(mat.val) :
         /\ mat.row_ptr[call.drow] < d /\ d <= mat.row_ptr[call.drow + 1]
         /\ mat.col_ind[d] = call.drow
         /\ mat.val[d] = call.dval

\* C7: multiply(x, y, s) leaves x unchanged and sets every y[i] to s times
\* the sum over the stored entries d of row i of val[d] * x[col_ind[d]],
\* whatever y held before; an empty row gives 0; the 3x3 identity with
\* x = [2,3,4] and s = 1 gives y = [2,3,4].
C7_Multiply ==
  (call.op = "multiply" /\ call.phase = "done") =>
    LET mat == mats[call.m] IN
    /\ call.x = call.x0
    /\ \A i \in 0..(mat.nrow - 1) :
         /\ call.y[i + 1] = call.w * RefRowSum(mat, i, call.x0)
         /\ (mat.row_ptr[i] = mat.row_ptr[i + 1] => call.y[i + 1] = 0)
    /\ (IsIdentity3(mat) /\ call.x0 = <<2, 3, 4>> /\ call.w = 1) => call.y = <<2, 3, 4>>

\* multiply finished on the 3x3 identity with x = [2,3,4], s = 1 and a y
\* that held other values before
C7_Witness ==
  /\ call.op = "multiply" /\ call.phase = "done" /\ IsIdentity3(mats[call.m])
  /\ call.x0 = <<2, 3, 4>> /\ call.w = 1 /\ call.y0 = <<1, 1, 1>>

\* C8: jacobi_step is a simultaneous update: with r[i] = rhs[i] minus the
\* row sum over the x passed in, every x[i] ends as x_old[i] + r[i]/diag(i),
\* and the value returned is the root of the sum of the r[i]^2; on the 3x3
\* identity with x = [0,0,0], rhs = [2,3,4] it gives x = [2,3,4] and 29.
C8_Jacobi ==
  (call.op = "Jacobi" /\ call.phase = "done" /\ DiagUsable(mats[call.m])) =>
    LET mat == mats[call.m]
        r == [k \in 1..mat.nrow |-> call.rhs[k] - RefRowSum(mat, k - 1, call.x0)]
    IN /\ \A i \in 0..(mat.nrow - 1) :
            call.x[i + 1] = call.x0[i + 1] + CDiv(r[i + 1], DiagVal(mat, i))
       /\ call.res = SumSq(r, mat.nrow)
       /\ KernelRet(call) * KernelRet(call) <= SumSq(r, mat.nrow)
       /\ (KernelRet(call) + 1) * (KernelRet(call) + 1) > SumSq(r, mat.nrow)
       /\ (IsIdentity3(mat) /\ call.x0 = <<0, 0, 0>> /\ call.rhs = <<2, 3, 4>>)
            => (call.x = <<2, 3, 4>> /\ call.res = 29)

\* jacobi_step finished on a matrix with an entry off the diagonal, where a
\* sweep in place would give another x
C8_Witness ==
  /\ call.op = "Jacobi" /\ call.phase = "done" /\ DiagUsable(mats[call.m])
  /\ mats[call.m].nrow = 2
  /\ call.x # SweepRef(mats[call.m], call.x0, call.rhs, 1, 2)

\* C9: sor_step is an ascending sweep in place: the residual of row i is
\* taken on the x that holds this sweep's updates of the rows below i, then
\* x[i] grows by omega * r_i / diag(i); the value returned is the root of
\* the sum of the squares of these residuals.
C9_SOR ==
  (call.op = "SOR" /\ call.phase = "done" /\ DiagUsable(mats[call.m])) =>
    LET mat == mats[call.m]
        r == [k \in 1..mat.nrow |-> SweepRes(mat, call.x0, call.rhs, call.w, k - 1)]
    IN /\ call.x = SweepRef(mat, call.x0, call.rhs, call.w, mat.nrow)
       /\ call.res = SumSq(r, mat.nrow)
       /\ KernelRet(call) * KernelRet(call) <= SumSq(r, mat.nrow)
       /\ (KernelRet(call) + 1) * (KernelRet(call) + 1) > SumSq(r, mat.nrow)

\* sor_step finished where row 1 read the x[0] that row 0 had just changed
C9_Witness ==
  /\ call.op = "SOR" /\ call.phase = "done" /\ DiagUsable(mats[call.m])
  /\ mats[call.m].nrow = 2
  /\ call.x[1] # call.x0[1]
  /\ \E d \in 1..Len(mats[call.m].val) :
       /\ mats[call.m].row_ptr[1] < d /\ mats[call.m].col_ind[d] = 0
       /\ mats[call.m].val[d] # 0

\* C10: ssor_step leaves the x of an ascending sweep followed by a sweep
\* over the rows nrow-1 down to 0 with the same rule, row 0 included, and
\* returns the root of the sum of the squared residuals of the descending
\* sweep only.
C10_SSOR ==
  (call.op = "SSOR" /\ call.phase = "done" /\ DiagUsable(mats[call.m])) =>
    LET mat == mats[call.m]
        xf == SweepRef(mat, call.x0, call.rhs, call.w, mat.nrow)
        r == [k \in 1..mat.nrow |-> BackRes(mat, xf, call.rhs, call.w, k - 1)]
    IN /\ call.x = BackRef(mat, xf, call.rhs, call.w, mat.nrow)
       /\ call.res = SumSq(r, mat.nrow)
       /\ KernelRet(call) * KernelRet(call) <= SumSq(r, mat.nrow)
       /\ (KernelRet(call) + 1) * (KernelRet(call) + 1) > SumSq(r, mat.nrow)

\* ssor_step finished where the descending sweep changed x[0] once more and
\* the residuals of the two sweeps differ
C10_Witness ==
  /\ call.op = "SSOR" /\ call.phase = "done" /\ DiagUsable(mats[call.m])
  /\ mats[call.m].nrow = 2
  /\ LET mat == mats[call.m]
         xf == SweepRef(mat, call.x0, call.rhs, call.w, 2)
     IN /\ call.x[1] # xf[1]
        /\ call.res # SumSq([k \in 1..2 |-> SweepRes(mat, call.x0, call.rhs, call.w, k - 1)], 2)
====
